---- MODULE Spec2Model ----
(***************************************************************************)
(* Company-news dashboard: the filename date parser, the news classifier   *)
(* and the record aggregator, as implemented by the three entry points     *)
(* app.py (Flask), csv_server.py (http.server) and build.py (static build).*)
(*                                                                         *)
(* Strings are sequences of atoms.  A filename or an ISO date is a         *)
(* sequence of single characters; a free text or a company name is a       *)
(* sequence of words and blanks whose character counts AtomLen gives.      *)
(***************************************************************************)
EXTENDS Integers, Sequences, FiniteSets, TLC

VARIABLES
    scrapped_output,   \* the data directory: filename -> dataframe of the CSV
    filename,          \* argument of parse_date_from_filename
    extracted_text,    \* the Extracted_Text cell handed to a classifier
    request,           \* the <date> of the HTTP request
    entry,             \* entry point that ran last ("none" before any)
    op,                \* what it ran
    response           \* what the entry point returned

vars == <<scrapped_output, filename, extracted_text, request, entry, op, response>>

(***************************************************************************)
(* Python values                                                           *)
(***************************************************************************)
None == [none |-> TRUE, v |-> <<>>]

Some(s) == [none |-> FALSE, v |-> s]

\* pandas gives NaN for an empty cell
NaN == None

Null == <<>>

(***************************************************************************)
(* str methods                                                             *)
(***************************************************************************)
startswith(s, p) ==
    /\ Len(p) <= Len(s)
    /\ SubSeq(s, 1, Len(p)) = p

endswith(s, p) ==
    /\ Len(p) <= Len(s)
    /\ SubSeq(s, Len(s) - Len(p) + 1, Len(s)) = p

\* p in s
RECURSIVE contains(_, _)
contains(s, p) ==
    IF Len(p) > Len(s) THEN FALSE
    ELSE startswith(s, p) \/ contains(Tail(s), p)

\* s.replace(old, ''): every non-overlapping occurrence, left to right
RECURSIVE str_replace(_, _)
str_replace(s, old) ==
    IF s = <<>> THEN <<>>
    ELSE IF startswith(s, old)
         THEN str_replace(SubSeq(s, Len(old) + 1, Len(s)), old)
         ELSE <<Head(s)>> \o str_replace(Tail(s), old)

\* s.split(sep) for a one-character separator: the list of parts
RECURSIVE str_split(_, _)
str_split(s, sep) ==
    IF s = <<>> THEN << <<>> >>
    ELSE LET rest == str_split(Tail(s), sep)
         IN  IF Head(s) = sep
             THEN << <<>> >> \o rest
             ELSE << <<Head(s)>> \o rest[1] >> \o Tail(rest)

zeros(n) == [i \in 1..n |-> "0"]

zfill_nopad(s, width) == s

\* s.zfill(width): zeros on the left, after a leading sign
zfill(s, width) ==
    IF Len(s) >= width THEN s
    ELSE IF s # <<>> /\ s[1] \in {"+", "-"}
         THEN <<s[1]>> \o zeros(width - Len(s)) \o Tail(s)
         ELSE zeros(width - Len(s)) \o s

dotcsv == <<".", "c", "s", "v">>

(***************************************************************************)
(* Filename date parser, one copy per entry point                          *)
(***************************************************************************)
parse_date_from_filename(name) ==
    LET date_part == str_replace(name, dotcsv)
        parts == str_split(date_part, ".")
    IN  IF Len(parts) = 3
        THEN Some(parts[3] \o <<"-">> \o zfill(parts[2], 2) \o <<"-">> \o zfill(parts[1], 2))
        ELSE None

build_parse_date_from_filename(name) ==
    LET date_part == str_replace(name, dotcsv)
        parts == str_split(date_part, ".")
    IN  IF Len(parts) = 3
        THEN Some(parts[3] \o <<"-">> \o zfill(parts[2], 2) \o <<"-">> \o zfill(parts[1], 2))
        ELSE None

CSVHandler_parse_date_from_filename(name) ==
    LET date_part == str_replace(name, dotcsv)
        parts == str_split(date_part, ".")
    IN  IF Len(parts) = 3
        THEN Some(parts[3] \o <<"-">> \o zfill(parts[2], 2) \o <<"-">> \o zfill(parts[1], 2))
        ELSE None

(***************************************************************************)
(* Filenames handed to the parser                                          *)
(***************************************************************************)
MaxParts == 4

Digits == {"0", "2", "3", "5"}

y2025 == <<"2", "0", "2", "5">>

y2026 == <<"2", "0", "2", "6">>

NameParts ==
    { <<"5">>, <<"3", "5">>, y2025, <<"a", "b">>, <<"5">> \o dotcsv }

NameSeparators == {".", "-"}

NameSuffixes == { dotcsv, <<>>, <<".", "C", "S", "V">> }

RECURSIVE join(_, _)
join(parts, sep) ==
    IF Len(parts) = 0 THEN <<>>
    ELSE IF Len(parts) = 1 THEN parts[1]
    ELSE parts[1] \o <<sep>> \o join(Tail(parts), sep)

Filenames ==
    { join(ps, sep) \o suf :
        ps \in UNION { [1..n -> NameParts] : n \in 1..MaxParts },
        sep \in NameSeparators,
        suf \in NameSuffixes }

InitParse ==
    /\ filename \in Filenames
    /\ scrapped_output = Null
    /\ extracted_text = Null
    /\ request = Null
    /\ entry = "none"
    /\ op = "none"
    /\ response = Null

AppParse ==
    /\ entry' = "app"
    /\ op' = "parse_date_from_filename"
    /\ response' = parse_date_from_filename(filename)
    /\ UNCHANGED <<scrapped_output, filename, extracted_text, request>>

BuildParse ==
    /\ entry' = "build"
    /\ op' = "parse_date_from_filename"
    /\ response' = build_parse_date_from_filename(filename)
    /\ UNCHANGED <<scrapped_output, filename, extracted_text, request>>

ServerParse ==
    /\ entry' = "server"
    /\ op' = "parse_date_from_filename"
    /\ response' = CSVHandler_parse_date_from_filename(filename)
    /\ UNCHANGED <<scrapped_output, filename, extracted_text, request>>

NextParse == AppParse \/ BuildParse \/ ServerParse

SpecParse == InitParse /\ [][NextParse]_vars

(***************************************************************************)
(* Claims about the parser                                                 *)
(***************************************************************************)
DigitStrings(n) == [1..n -> Digits]

AllDigits(s) == \A i \in 1..Len(s) : s[i] \in Digits

\* the exact form D.M.YYYY.csv, D and M one or two digits, YYYY four
IsDMYcsv(name, d, m, y) ==
    name = d \o <<".">> \o m \o <<".">> \o y \o dotcsv

TwoDigits(s) == IF Len(s) = 1 THEN <<"0">> \o s ELSE s

\* C6: a filename D.M.YYYY.csv parses to YYYY-MM-DD, month and day
\* zero-padded to two digits, whatever the calendar ranges, in every entry point
C6_ExactFormParses ==
    entry # "none" =>
        \A d \in DigitStrings(1) \cup DigitStrings(2),
           m \in DigitStrings(1) \cup DigitStrings(2),
           y \in {y2025} :
            IsDMYcsv(filename, d, m, y) =>
                response = Some(y \o <<"-">> \o TwoDigits(m) \o <<"-">> \o TwoDigits(d))

C6_Witness ==
    /\ entry = "server"
    /\ filename = <<"5", ".", "3", "5", ".", "2", "0", "2", "5">> \o dotcsv
    /\ response = Some(<<"2", "0", "2", "5", "-", "3", "5", "-", "0", "5">>)

\* day.month.year (digits) followed by one trailing exact .csv suffix
ShapeOK(name) ==
    /\ endswith(name, dotcsv)
    /\ LET parts == str_split(SubSeq(name, 1, Len(name) - Len(dotcsv)), ".")
       IN  /\ Len(parts) = 3
           /\ \A i \in 1..3 : parts[i] # <<>> /\ AllDigits(parts[i])

\* C7: a filename of any other shape yields no date
C7_OtherShapeRejected ==
    (entry # "none" /\ ~ShapeOK(filename)) => response = None

(***************************************************************************)
(* Free text: words and blanks                                             *)
(***************************************************************************)
Body == "announced a record quarterly profit beating analyst expectations"

F49 == "quarterly revenue rose on strong retail demand..."

F50 == "quarterly revenue rose on strong retail demand...."

LongName51 == "Consolidated Infrastructure Development Holdings Co"

LongName50 == "Consolidated Infrastructure Development Holding Co"

\* link-field atoms: URLs, a host without a protocol, a path without a
\* protocol or 'www.', a phrase that is no URL
U1 == "https://example.com/news"

U2 == "https://example.org/a"

UShort == "http://a.b"

Www == "www.example.com"

Bare == "example.com/page"

Plain == "not available yet"

\* len() of one atom
AtomLen(a) ==
    CASE a = Body -> 64
      [] a = LongName51 -> 51
      [] a \in {F50, LongName50} -> 50
      [] a = F49 -> 49
      [] a = U1 -> 24
      [] a = U2 -> 21
      [] a = Plain -> 17
      [] a = Bare -> 16
      [] a = Www -> 15
      [] a \in {"announcements"} -> 13
      [] a \in {"developments", "Developments"} -> 12
      [] a \in {"significant", "Significant"} -> 11
      [] a \in {"05.01.2026", "continues.", UShort} -> 10
      [] a \in {"corporate", "Corporate"} -> 9
      [] a \in {"5.1.2026", "https://"} -> 8
      [] a \in {"updates", "UPDATES", "nothing", "changes", "=======", "<<<<<<<", ">>>>>>>", "Reddy's"} -> 7
      [] a \in {"recent", "Growth", "growth"} -> 6
      [] a \in {"found", "Found", "links", "Links", "major"} -> 5
      [] a \in {"news", "acme", "Acme", "ACME", "Beta", "beta", "HEAD", "Corp", "corp"} -> 4
      [] a \in {"for", "nan", "Dr.", "Ltd", "ltd", "Zed", "zed"} -> 3
      [] a \in {"no", "No", "NO", "on"} -> 2
      [] OTHER -> 1

RECURSIVE strlen(_)
strlen(s) == IF s = <<>> THEN 0 ELSE AtomLen(Head(s)) + strlen(Tail(s))

Whitespace == {" ", "\n", "\t"}

RECURSIVE lstrip(_)
lstrip(s) == IF s # <<>> /\ Head(s) \in Whitespace THEN lstrip(Tail(s)) ELSE s

RECURSIVE rstrip(_)
rstrip(s) ==
    IF s # <<>> /\ s[Len(s)] \in Whitespace THEN rstrip(SubSeq(s, 1, Len(s) - 1)) ELSE s

strip(s) == lstrip(rstrip(s))

lower_atom(a) ==
    CASE a \in {"No", "NO"} -> "no"
      [] a = "Significant" -> "significant"
      [] a = "Corporate" -> "corporate"
      [] a = "Developments" -> "developments"
      [] a = "UPDATES" -> "updates"
      [] a = "Growth" -> "growth"
      [] a \in {"Acme", "ACME"} -> "acme"
      [] a = "Beta" -> "beta"
      [] a = "HEAD" -> "head"
      [] a = "Links" -> "links"
      [] a = "Found" -> "found"
      [] a = "Corp" -> "corp"
      [] a = "Ltd" -> "ltd"
      [] a = "Zed" -> "zed"
      [] OTHER -> a

lower(s) == [i \in 1..Len(s) |-> lower_atom(s[i])]

\* str(x): a string as it is, NaN as 'nan'
str(cell) == IF cell.none THEN <<"nan">> ELSE cell.v

\* the words of a phrase, one blank between them
RECURSIVE words(_)
words(ws) == IF Len(ws) <= 1 THEN ws ELSE <<ws[1], " ">> \o words(Tail(ws))

(***************************************************************************)
(* News classifier, one copy per entry point                               *)
(***************************************************************************)
\* \d{2}\.\d{2}\.\d{4} at the start of a word
IsDateWord(a) == a \in {"05.01.2026"}

\* re.search(r"no significant corporate developments for .+ on \d{2}\.\d{2}\.\d{4}", s)
date_pattern_search(s) ==
    LET head == words(<<"no", "significant", "corporate", "developments", "for">>) \o <<" ">>
    IN  \E i \in 1..Len(s), k \in 1..Len(s) :
            /\ startswith(SubSeq(s, i, Len(s)), head)
            /\ k > i + Len(head)
            /\ \A x \in (i + Len(head))..(k - 1) : s[x] # "\n"
            /\ k + 3 <= Len(s)
            /\ SubSeq(s, k, k + 2) = <<" ", "on", " ">>
            /\ IsDateWord(s[k + 3])

no_news_patterns ==
    { words(<<"no", "significant", "corporate", "developments", "for">>),
      words(<<"no", "significant", "corporate", "developments">>),
      words(<<"no", "significant", "developments">>),
      words(<<"no", "significant", "news">>),
      words(<<"no", "significant">>),
      words(<<"no", "news", "found">>),
      words(<<"no", "news">>),
      words(<<"no", "updates">>),
      words(<<"no", "recent", "news">>),
      words(<<"no", "major", "news">>),
      words(<<"nothing", "significant">>),
      words(<<"no", "developments">>),
      words(<<"no", "announcements">>) }

ShortLimit == 50

categorize_company_news(cell) ==
    IF cell.none \/ cell.v = <<>> THEN "no_news"
    ELSE LET text_str == lower(strip(str(cell)))
         IN  IF date_pattern_search(text_str) THEN "no_news"
             ELSE IF strlen(text_str) < ShortLimit THEN "no_news"
             ELSE IF \E pattern \in no_news_patterns : contains(text_str, pattern)
                  THEN "no_news"
             ELSE "has_news"

build_no_news_patterns ==
    { words(<<"no", "significant", "corporate", "developments", "for">>),
      words(<<"no", "significant", "corporate", "developments">>),
      words(<<"no", "significant", "developments">>),
      words(<<"no", "significant", "news">>),
      words(<<"no", "significant">>),
      words(<<"no", "news", "found">>),
      words(<<"no", "news">>),
      words(<<"no", "updates">>),
      words(<<"no", "recent", "news">>),
      words(<<"no", "major", "news">>),
      words(<<"nothing", "significant">>),
      words(<<"no", "developments">>),
      words(<<"no", "announcements">>) }

build_categorize_company_news(cell) ==
    IF cell.none \/ cell.v = <<>> THEN "no_news"
    ELSE LET text_str == lower(strip(str(cell)))
         IN  IF date_pattern_search(text_str) THEN "no_news"
             ELSE IF strlen(text_str) < ShortLimit THEN "no_news"
             ELSE IF \E pattern \in build_no_news_patterns : contains(text_str, pattern)
                  THEN "no_news"
             ELSE "has_news"

CSVHandler_no_news_patterns ==
    { words(<<"no", "significant", "corporate", "developments">>),
      words(<<"no", "significant", "news">>),
      words(<<"no", "news">>),
      words(<<"no", "updates">>),
      words(<<"no", "recent", "news">>),
      words(<<"no", "major", "news">>),
      words(<<"nothing", "significant">>),
      words(<<"no", "developments">>),
      words(<<"no", "announcements">>) }

has_significant_news_nolimit(text) ==
    IF text = <<>> THEN FALSE
    ELSE ~(\E pattern \in CSVHandler_no_news_patterns : contains(lower(text), pattern))

has_significant_news(text) ==
    IF text = <<>> \/ strlen(strip(text)) < ShortLimit THEN FALSE
    ELSE LET text_lower == lower(text)
         IN  ~(\E pattern \in CSVHandler_no_news_patterns : contains(text_lower, pattern))

\* build.py hands the classifier the stringified, trimmed cell
build_extracted_text(cell) == IF cell.none \/ cell.v # <<>> THEN strip(str(cell)) ELSE <<>>

\* csv_server.py does too
CSVHandler_extracted_text(cell) == strip(str(cell))

(***************************************************************************)
(* Cells handed to the classifiers                                         *)
(***************************************************************************)
TextCores ==
    { words(<<"no", "significant", "corporate", "developments", "for", "acme", "on", "05.01.2026">>),
      words(<<"No", "Significant", "Corporate", "Developments", "for", "Acme", "on", "05.01.2026">>),
      words(<<"no", "significant", "corporate", "developments", "for", "acme", "on", "5.1.2026">>),
      words(<<"no", "significant", "corporate", "developments">>),
      words(<<"no", "significant", "developments">>),
      words(<<"no", "significant", "news">>),
      words(<<"no", "significant", "changes">>),
      words(<<"no", "news", "found">>),
      words(<<"no", "news">>),
      words(<<"no", "updates">>),
      words(<<"NO", "UPDATES">>),
      words(<<"no", "recent", "news">>),
      words(<<"no", "major", "news">>),
      words(<<"nothing", "significant">>),
      words(<<"no", "developments">>),
      words(<<"no", "announcements">>),
      words(<<"significant", "news">>),
      words(<<"Growth", "continues.">>),
      <<F49>>,
      <<F50>> }

TextLeads == { <<>>, <<" ">>, <<Body, " ">> }

TextTails == { <<>>, <<"\n">>, <<" ", Body>> }

TextCells ==
    { Some(a \o c \o b) : a \in TextLeads, c \in TextCores, b \in TextTails }
        \cup { NaN, Some(<<" ">>) }

InitClassify ==
    /\ extracted_text \in TextCells
    /\ scrapped_output = Null
    /\ filename = Null
    /\ request = Null
    /\ entry = "none"
    /\ op = "none"
    /\ response = Null

\* app.py:171-174
AppClassify ==
    /\ entry' = "app"
    /\ op' = "classify"
    /\ response' = categorize_company_news(extracted_text)
    /\ UNCHANGED <<scrapped_output, filename, extracted_text, request>>

\* build.py:164-170
BuildClassify ==
    /\ entry' = "build"
    /\ op' = "classify"
    /\ response' = build_categorize_company_news(Some(build_extracted_text(extracted_text)))
    /\ UNCHANGED <<scrapped_output, filename, extracted_text, request>>

\* csv_server.py:90-106
ServerClassify ==
    /\ entry' = "server"
    /\ op' = "classify"
    /\ response' = IF has_significant_news(CSVHandler_extracted_text(extracted_text))
                   THEN "has_news" ELSE "no_news"
    /\ UNCHANGED <<scrapped_output, filename, extracted_text, request>>

NextClassify == AppClassify \/ BuildClassify \/ ServerClassify

SpecClassify == InitClassify /\ [][NextClassify]_vars

(***************************************************************************)
(* Claims about the classifier                                             *)
(***************************************************************************)
ListedPhrases ==
    { words(<<"no", "significant", "corporate", "developments">>),
      words(<<"no", "significant", "developments">>),
      words(<<"no", "significant", "news">>),
      words(<<"no", "significant">>),
      words(<<"no", "news", "found">>),
      words(<<"no", "news">>),
      words(<<"no", "updates">>),
      words(<<"no", "recent", "news">>),
      words(<<"no", "major", "news">>),
      words(<<"nothing", "significant">>),
      words(<<"no", "developments">>),
      words(<<"no", "announcements">>) }

\* the ordered decision list of the classifier contract
DecisionList(cell) ==
    IF cell.none \/ cell.v = <<>> THEN "no_news"
    ELSE IF date_pattern_search(lower(cell.v)) THEN "no_news"
    ELSE IF strlen(strip(cell.v)) < 50 THEN "no_news"
    ELSE IF \E p \in ListedPhrases : contains(lower(cell.v), p) THEN "no_news"
    ELSE "has_news"

\* C1: every entry point's classifier returns the result of the decision list
C1_ClassifierIsDecisionList ==
    entry # "none" => response = DecisionList(extracted_text)

TrimmedShort(cell) == ~cell.none /\ strlen(strip(cell.v)) < 50

\* C10: a text whose trimmed length is under 50 is no news in every entry point,
\* listed phrase or not, and classifying it again gives the same label
C10_ShortIsNoNews ==
    /\ [](entry # "none" /\ TrimmedShort(extracted_text) => response = "no_news")
    /\ [][entry' = entry => response' = response]_vars

C10_Witness ==
    /\ entry = "server"
    /\ extracted_text = Some(<<"Growth", " ", "continues.">>)
    /\ response = "no_news"

(***************************************************************************)
(* String order (code points), datetime.strptime and strftime              *)
(***************************************************************************)
\* rank of an atom in code-point order; no atom is a prefix of another
AtomRank(a) ==
    CASE a = " " -> 3200
      [] a = "-" -> 4500
      [] a = "." -> 4600
      [] a = "0" -> 4800
      [] a = "1" -> 4900
      [] a = "2" -> 5000
      [] a = "3" -> 5100
      [] a = "4" -> 5200
      [] a = "5" -> 5300
      [] a = "6" -> 5400
      [] a = "7" -> 5500
      [] a = "8" -> 5600
      [] a = "9" -> 5700
      [] a = "<<<<<<<" -> 6000
      [] a = "=======" -> 6100
      [] a = ">>>>>>>" -> 6200
      [] a = "ACME" -> 6500
      [] a = "Acme" -> 6501
      [] a = "Beta" -> 6600
      [] a = LongName50 -> 6700
      [] a = LongName51 -> 6701
      [] a = "Corp" -> 6702
      [] a = "Dr." -> 6800
      [] a = "HEAD" -> 7200
      [] a = "Reddy's" -> 8200
      [] a = "acme" -> 9700
      [] a = "beta" -> 9800
      [] a = "nan" -> 11000
      [] OTHER -> 12000

\* a < b on strings
RECURSIVE str_lt(_, _)
str_lt(a, b) ==
    IF b = <<>> THEN FALSE
    ELSE IF a = <<>> THEN TRUE
    ELSE IF Head(a) = Head(b) THEN str_lt(Tail(a), Tail(b))
    ELSE AtomRank(Head(a)) < AtomRank(Head(b))

AllDigitChars == {"0", "1", "2", "3", "4", "5", "6", "7", "8", "9"}

DigitVal(c) == (AtomRank(c) - 4800) \div 100

DigitChar(n) == CHOOSE c \in AllDigitChars : DigitVal(c) = n

IsLeap(y) == (y % 4 = 0 /\ y % 100 # 0) \/ y % 400 = 0

DaysInMonth(y, m) ==
    IF m = 2 THEN (IF IsLeap(y) THEN 29 ELSE 28)
    ELSE IF m \in {4, 6, 9, 11} THEN 30 ELSE 31

\* %m: 1[0-2]|0[1-9]|[1-9]
MatchesMonth(s) ==
    \/ Len(s) = 2 /\ s[1] = "1" /\ s[2] \in {"0", "1", "2"}
    \/ Len(s) = 2 /\ s[1] = "0" /\ s[2] \in AllDigitChars \ {"0"}
    \/ Len(s) = 1 /\ s[1] \in AllDigitChars \ {"0"}

\* %d: 3[0-1]|[1-2]\d|0[1-9]|[1-9]| [1-9]
MatchesDay(s) ==
    \/ Len(s) = 2 /\ s[1] = "3" /\ s[2] \in {"0", "1"}
    \/ Len(s) = 2 /\ s[1] \in {"1", "2"} /\ s[2] \in AllDigitChars
    \/ Len(s) = 2 /\ s[1] \in {"0", " "} /\ s[2] \in AllDigitChars \ {"0"}
    \/ Len(s) = 1 /\ s[1] \in AllDigitChars \ {"0"}

\* int() of a matched group
RECURSIVE IntOf(_)
IntOf(s) ==
    IF s = <<>> THEN 0
    ELSE IF s[Len(s)] = " " THEN IntOf(SubSeq(s, 1, Len(s) - 1))
    ELSE 10 * IntOf(SubSeq(s, 1, Len(s) - 1)) + DigitVal(s[Len(s)])

\* datetime.strptime(s, '%Y-%m-%d'): the date, or None for ValueError
strptime(s) ==
    LET parts == str_split(s, "-")
    IN  IF /\ Len(parts) = 3
           /\ Len(parts[1]) = 4
           /\ \A i \in 1..4 : parts[1][i] \in AllDigitChars
           /\ MatchesMonth(parts[2])
           /\ MatchesDay(parts[3])
        THEN LET y == IntOf(parts[1])
                 m == IntOf(parts[2])
                 d == IntOf(parts[3])
             IN  IF y >= 1 /\ d <= DaysInMonth(y, m)
                 THEN Some([year |-> y, month |-> m, day |-> d])
                 ELSE None
        ELSE None

WeekdayNames == <<"Sunday", "Monday", "Tuesday", "Wednesday", "Thursday", "Friday", "Saturday">>

MonthNames ==
    <<"January", "February", "March", "April", "May", "June", "July", "August",
      "September", "October", "November", "December">>

MonthOffsets == <<0, 3, 2, 5, 0, 3, 5, 1, 4, 6, 2, 4>>

\* day of the week, 1 = Sunday
Weekday(dt) ==
    LET y == IF dt.month < 3 THEN dt.year - 1 ELSE dt.year
    IN  ((y + (y \div 4) - (y \div 100) + (y \div 400) + MonthOffsets[dt.month] + dt.day) % 7) + 1

\* dt.strftime('%A, %B %d, %Y')
strftime(dt) ==
    << WeekdayNames[Weekday(dt)], ",", " ", MonthNames[dt.month], " ",
       DigitChar(dt.day \div 10), DigitChar(dt.day % 10), ",", " ",
       DigitChar(dt.year \div 1000), DigitChar((dt.year \div 100) % 10),
       DigitChar((dt.year \div 10) % 10), DigitChar(dt.year % 10) >>

(***************************************************************************)
(* The data directory and the available-dates listing                      *)
(***************************************************************************)
\* glob.glob('scrapped_output/*.csv'): the names, hidden files left out
glob_csv(dir) == { f \in DOMAIN dir : endswith(f, dotcsv) /\ Head(f) # "." }

\* the orders in which glob may return the files
Orders(S) ==
    { p \in [1..Cardinality(S) -> S] : \A i, j \in 1..Cardinality(S) : i # j => p[i] # p[j] }

DateEntry(parsed_date, name, dt) ==
    [date |-> parsed_date, filename |-> name, display_date |-> strftime(dt)]

\* app.py:125-133; None when strptime raises
RECURSIVE app_dates(_)
app_dates(csv_files) ==
    IF csv_files = <<>> THEN Some(<<>>)
    ELSE LET parsed_date == parse_date_from_filename(Head(csv_files))
             rest == app_dates(Tail(csv_files))
         IN  IF parsed_date.none THEN rest
             ELSE LET dt == strptime(parsed_date.v)
                  IN  IF dt.none \/ rest.none THEN None
                      ELSE Some(<<DateEntry(parsed_date.v, Head(csv_files), dt.v)>> \o rest.v)

\* csv_server.py:53-61
RECURSIVE CSVHandler_dates(_)
CSVHandler_dates(csv_files) ==
    IF csv_files = <<>> THEN Some(<<>>)
    ELSE LET parsed_date == CSVHandler_parse_date_from_filename(Head(csv_files))
             rest == CSVHandler_dates(Tail(csv_files))
         IN  IF parsed_date.none THEN rest
             ELSE LET dt == strptime(parsed_date.v)
                  IN  IF dt.none \/ rest.none THEN None
                      ELSE Some(<<DateEntry(parsed_date.v, Head(csv_files), dt.v)>> \o rest.v)

\* build.py:111-119
RECURSIVE build_dates(_)
build_dates(csv_files) ==
    IF csv_files = <<>> THEN Some(<<>>)
    ELSE LET parsed_date == build_parse_date_from_filename(Head(csv_files))
             rest == build_dates(Tail(csv_files))
         IN  IF parsed_date.none THEN rest
             ELSE LET dt == strptime(parsed_date.v)
                  IN  IF dt.none \/ rest.none THEN None
                      ELSE Some(<<DateEntry(parsed_date.v, Head(csv_files), dt.v)>> \o rest.v)

RECURSIVE insert_by_date_desc(_, _)
insert_by_date_desc(sorted, e) ==
    IF sorted = <<>> THEN <<e>>
    ELSE IF str_lt(Head(sorted).date, e.date) THEN <<e>> \o sorted
    ELSE <<Head(sorted)>> \o insert_by_date_desc(Tail(sorted), e)

\* dates.sort(key=lambda x: x['date'], reverse=True), a stable sort
RECURSIVE sort_dates(_)
sort_dates(dates) ==
    IF dates = <<>> THEN <<>>
    ELSE insert_by_date_desc(sort_dates(SubSeq(dates, 1, Len(dates) - 1)), dates[Len(dates)])

(***************************************************************************)
(* Record aggregator, one copy per entry point                             *)
(***************************************************************************)
\* truth value of a cell: NaN is a non-zero float, a string is true unless ''
truthy(cell) == cell.none \/ cell.v # <<>>

\* offset of the first '.' in an atom, -1 when it has none
DotPos(a) ==
    CASE a = "." -> 0
      [] a = "5.1.2026" -> 1
      [] a \in {"Dr.", "05.01.2026"} -> 2
      [] a = Www -> 3
      [] a = Bare -> 7
      [] a = UShort -> 8
      [] a = "continues." -> 9
      [] a \in {U1, U2} -> 15
      [] a \in {F49, F50} -> 46
      [] OTHER -> -1

\* '.' in s[:n]
RECURSIVE dot_in_prefix(_, _)
dot_in_prefix(s, n) ==
    IF s = <<>> \/ n <= 0 THEN FALSE
    ELSE \/ DotPos(Head(s)) >= 0 /\ DotPos(Head(s)) < n
         \/ dot_in_prefix(Tail(s), n - AtomLen(Head(s)))

NameLimit == 50

ConflictMarkers == { <<"=======">>, <<"<<<<<<<">>, <<">>>>>>>">> }

RECURSIVE insert_by_name(_, _)
insert_by_name(sorted, e) ==
    IF sorted = <<>> THEN <<e>>
    ELSE IF str_lt(e.name, Head(sorted).name) THEN <<e>> \o sorted
    ELSE <<Head(sorted)>> \o insert_by_name(Tail(sorted), e)

sort_by_name_unsorted(companies) == companies

\* companies.sort(key=lambda x: x['name']), a stable sort
RECURSIVE sort_by_name(_)
sort_by_name(companies) ==
    IF companies = <<>> THEN <<>>
    ELSE insert_by_name(sort_by_name(SubSeq(companies, 1, Len(companies) - 1)),
                        companies[Len(companies)])

DailyReport(date, with_news, no_news) ==
    [ date |-> date,
      companies_with_news |-> with_news,
      companies_no_news |-> no_news,
      total_companies |-> Len(with_news) + Len(no_news),
      news_count |-> Len(with_news),
      no_news_count |-> Len(no_news) ]

company_datas(rows) == [i \in 1..Len(rows) |-> rows[i].company_data]

\* row[col] if col in row else ''
cell_or_empty(row, col) == IF col \in DOMAIN row THEN row[col] ELSE Some(<<>>)

\* app.py:170-184, one row
app_row(row) ==
    LET company_name == strip(str(row.Company_Name))
        text == cell_or_empty(row, "Extracted_Text")
        links == cell_or_empty(row, "Extracted_Links")
    IN  [ skip |-> FALSE,
          news_category |-> categorize_company_news(text),
          company_data |->
              [ name |-> company_name,
                text |-> IF truthy(text) THEN str(text) ELSE <<>>,
                links_raw |-> IF truthy(links) THEN str(links) ELSE <<>>,
                has_content |-> strlen(strip(str(text))) > 0 ] ]

\* app.py:166-202
app_report(date, df) ==
    LET rows == [i \in 1..Len(df) |-> app_row(df[i])]
        HasNews(r) == ~r.skip /\ r.news_category = "has_news"
        NoNews(r) == ~r.skip /\ r.news_category # "has_news"
    IN  DailyReport(date,
                    sort_by_name(company_datas(SelectSeq(rows, HasNews))),
                    sort_by_name(company_datas(SelectSeq(rows, NoNews))))

\* csv_server.py:83-101, one row
CSVHandler_row(row) ==
    LET company_name == strip(str(row.Company_Name))
        text == strip(str(cell_or_empty(row, "Extracted_Text")))
        links == strip(str(cell_or_empty(row, "Extracted_Links")))
    IN  [ skip |-> \/ strlen(company_name) > NameLimit
                   \/ \E m \in ConflictMarkers : startswith(company_name, m),
          news_category |-> IF has_significant_news(text) THEN "has_news" ELSE "no_news",
          company_data |->
              [ name |-> company_name,
                text |-> text,
                links_raw |-> links,
                has_content |-> strlen(text) > 0 ] ]

\* csv_server.py:79-119
CSVHandler_report(date, df) ==
    LET rows == [i \in 1..Len(df) |-> CSVHandler_row(df[i])]
        HasNews(r) == ~r.skip /\ r.news_category = "has_news"
        NoNews(r) == ~r.skip /\ r.news_category # "has_news"
    IN  DailyReport(date,
                    sort_by_name(company_datas(SelectSeq(rows, HasNews))),
                    sort_by_name(company_datas(SelectSeq(rows, NoNews))))

\* build.py:154-178, one row
build_row(row) ==
    LET company_name == strip(str(row.Company_Name))
        text == build_extracted_text(cell_or_empty(row, "Extracted_Text"))
        links == cell_or_empty(row, "Extracted_Links")
    IN  [ skip |-> \/ strlen(company_name) > NameLimit
                   \/ startswith(company_name, <<"=======">>)
                   \/ startswith(company_name, <<"<<<<<<<">>)
                   \/ startswith(company_name, <<">>>>>>>">>)
                   \/ dot_in_prefix(company_name, 10),
          news_category |-> build_categorize_company_news(Some(text)),
          company_data |->
              [ name |-> company_name,
                text |-> text,
                links_raw |-> IF truthy(links) THEN str(links) ELSE <<>>,
                has_content |-> strlen(text) > 0 ] ]

\* build.py:148-205
build_report(date, df) ==
    LET rows == [i \in 1..Len(df) |-> build_row(df[i])]
        HasNews(r) == ~r.skip /\ r.news_category = "has_news"
        NoNews(r) == ~r.skip /\ r.news_category # "has_news"
    IN  DailyReport(date,
                    sort_by_name(company_datas(SelectSeq(rows, HasNews))),
                    sort_by_name(company_datas(SelectSeq(rows, NoNews))))

(***************************************************************************)
(* Request handlers and the build pass                                     *)
(***************************************************************************)
RECURSIVE lstrip0(_)
lstrip0(s) == IF s # <<>> /\ Head(s) = "0" THEN lstrip0(Tail(s)) ELSE s

\* csv_server.py:215-227: the filename rebuilt from the date, if it exists
find_csv_for_date(dir, date) ==
    LET parts == str_split(date, "-")
    IN  IF Len(parts) # 3 THEN None
        ELSE LET csv_filename ==
                     lstrip0(parts[3]) \o <<".">> \o lstrip0(parts[2]) \o <<".">>
                         \o parts[1] \o dotcsv
             IN  IF csv_filename \in DOMAIN dir THEN Some(csv_filename) ELSE None

\* app.py:147-155: the first globbed file whose parsed date is the request's
app_target_file(csv_files, date) ==
    LET hits == { i \in 1..Len(csv_files) :
                    parse_date_from_filename(csv_files[i]) = Some(date) }
    IN  IF hits = {} THEN None
        ELSE Some(csv_files[CHOOSE i \in hits : \A j \in hits : i <= j])

Http(status, body) == [status |-> status, body |-> body]

\* the outcome of a block of code: an exception with its text, or a value
Raised(exc) == [raised |-> TRUE, exc |-> exc, value |-> <<>>]

Returned(value) == [raised |-> FALSE, exc |-> <<>>, value |-> value]

\* a file without any header line: pandas raises EmptyDataError
EmptyFile == << [error |-> <<"No columns to parse from file">>] >>

\* a line with more fields than the header has
BadLine == [bad_line |-> TRUE]

IsBadLine(line) == "bad_line" \in DOMAIN line

IsGoodLine(line) == ~IsBadLine(line)

\* pd.read_csv(target_file): a bad line is a ParserError
app_read_csv(content) ==
    IF content = EmptyFile
    THEN Raised(EmptyFile[1].error)
    ELSE IF \E i \in 1..Len(content) : IsBadLine(content[i])
         THEN Raised(<<"Error tokenizing data">>)
         ELSE Returned(content)

\* pd.read_csv(csv_file, ..., on_bad_lines='skip'): bad lines are left out
CSVHandler_read_csv(content) ==
    IF content = EmptyFile
    THEN Raised(EmptyFile[1].error)
    ELSE Returned(SelectSeq(content, IsGoodLine))

\* row['Company_Name'] raises KeyError in the first row of a frame without
\* that column
KeyErrorIn(df) == df # <<>> /\ "Company_Name" \notin DOMAIN df[1]

KeyErrorText == <<"'Company_Name'">>

\* app.py:159-205: the body of the try block after the file was found
app_company_news(date, content) ==
    LET df == app_read_csv(content)
    IN  IF df.raised THEN df
        ELSE IF KeyErrorIn(df.value) THEN Raised(KeyErrorText)
        ELSE Returned(app_report(date, df.value))

\* app.py:157-158, 204-207: the response after the lookup
app_company_news_response(date, target_file, dir) ==
    IF target_file.none
    THEN Http(404, <<"No data found for this date">>)
    ELSE LET result == app_company_news(date, dir[target_file.v])
         IN  IF result.raised THEN Http(500, result.exc) ELSE Http(200, result.value)

\* csv_server.py:74-121: the body of the try block
CSVHandler_company_news(date, content) ==
    LET df == CSVHandler_read_csv(content)
    IN  IF df.raised THEN df
        ELSE IF KeyErrorIn(df.value) THEN Raised(KeyErrorText)
        ELSE Returned(CSVHandler_report(date, df.value))

\* the response with the exception swallowed and the lists sent as they are
CSVHandler_company_news_response_swallow(date, csv_file, dir) ==
    IF csv_file.none
    THEN Http(404, <<"No data found for date">>)
    ELSE LET result == CSVHandler_company_news(date, dir[csv_file.v])
         IN  IF result.raised
             THEN Http(200, DailyReport(date, <<>>, <<>>))
             ELSE Http(200, result.value)

\* csv_server.py:69-72, 121-124: the response after the lookup
CSVHandler_company_news_response(date, csv_file, dir) ==
    IF csv_file.none
    THEN Http(404, <<"No data found for date">>)
    ELSE LET result == CSVHandler_company_news(date, dir[csv_file.v])
         IN  IF result.raised
             THEN Http(500, <<"Error processing CSV: ">> \o result.exc)
             ELSE Http(200, result.value)

\* app.py:121-140: the response for the globbed files
app_available_dates_response(csv_files) ==
    LET dates == app_dates(csv_files)
    IN  IF dates.none THEN Http(500, <<"ValueError">>)
        ELSE Http(200, sort_dates(dates.v))

\* csv_server.py:50-65: the response for the globbed files
CSVHandler_available_dates_response(csv_files) ==
    LET dates == CSVHandler_dates(csv_files)
    IN  IF dates.none THEN Http(500, <<"ValueError">>)
        ELSE Http(200, sort_dates(dates.v))

\* GET /api/available-dates, app.py:115-140
AppAvailableDates ==
    \E csv_files \in Orders(glob_csv(scrapped_output)) :
        /\ entry' = "app"
        /\ op' = "available_dates"
        /\ request' = Null
        /\ response' = app_available_dates_response(csv_files)
        /\ UNCHANGED <<scrapped_output, filename, extracted_text>>

\* GET /api/available-dates, csv_server.py:22-23, 44-65
ServerAvailableDates ==
    \E csv_files \in Orders(glob_csv(scrapped_output)) :
        /\ entry' = "server"
        /\ op' = "available_dates"
        /\ request' = Null
        /\ response' = CSVHandler_available_dates_response(csv_files)
        /\ UNCHANGED <<scrapped_output, filename, extracted_text>>

\* GET /api/company-news/<date>, app.py:142-207
AppCompanyNews(date) ==
    \E csv_files \in Orders(glob_csv(scrapped_output)) :
        LET target_file == app_target_file(csv_files, date)
        IN  /\ entry' = "app"
            /\ op' = "company_news"
            /\ request' = date
            /\ response' = app_company_news_response(date, target_file, scrapped_output)
            /\ UNCHANGED <<scrapped_output, filename, extracted_text>>

\* GET /api/company-news-<date>.json, csv_server.py:24-26, 67-124
ServerCompanyNews(date) ==
    LET csv_file == find_csv_for_date(scrapped_output, date)
    IN  /\ entry' = "server"
        /\ op' = "company_news"
        /\ request' = date
        /\ response' = CSVHandler_company_news_response(date, csv_file, scrapped_output)
        /\ UNCHANGED <<scrapped_output, filename, extracted_text>>

\* the parsed dates of the files the build pass processes
build_parsed_dates(csv_files) ==
    { build_parse_date_from_filename(csv_files[i]).v :
        i \in { j \in 1..Len(csv_files) : ~build_parse_date_from_filename(csv_files[j]).none } }

\* build.py:130-208: company-news-<date>.json as the last file of that date left it
build_company_news(dir, csv_files) ==
    [ d \in build_parsed_dates(csv_files) |->
        LET hits == { i \in 1..Len(csv_files) :
                        build_parse_date_from_filename(csv_files[i]) = Some(d) }
            last == CHOOSE i \in hits : \A j \in hits : j <= i
        IN  build_report(d, dir[csv_files[last]]) ]

\* python build.py, build.py:96-218; status is the exit code
BuildMain ==
    \E csv_files \in Orders(glob_csv(scrapped_output)) :
        LET dates == build_dates(csv_files)
        IN  /\ entry' = "build"
            /\ op' = "main"
            /\ request' = Null
            /\ response' = IF dates.none
                           THEN [status |-> 1, available_dates |-> <<>>, company_news |-> <<>>]
                           ELSE [status |-> 0,
                                 available_dates |-> sort_dates(dates.v),
                                 company_news |-> build_company_news(scrapped_output, csv_files)]
            /\ UNCHANGED <<scrapped_output, filename, extracted_text>>

(***************************************************************************)
(* Data directories with several files                                     *)
(***************************************************************************)
MaxFiles == 3

dmy_csv(d, m, y) == d \o <<".">> \o m \o <<".">> \o y \o dotcsv

iso(y, m, d) == y \o <<"-">> \o m \o <<"-">> \o d

f_05_01_2026 == dmy_csv(<<"0", "5">>, <<"0", "1">>, y2026)

f_5_1_2026 == dmy_csv(<<"5">>, <<"1">>, y2026)

f_sp5_1_2026 == dmy_csv(<<" ", "5">>, <<"1">>, y2026)

f_04_01_2026 == dmy_csv(<<"0", "4">>, <<"0", "1">>, y2026)

f_22_08_2025 == dmy_csv(<<"2", "2">>, <<"0", "8">>, y2025)

f_35_13_2025 == dmy_csv(<<"3", "5">>, <<"1", "3">>, y2025)

f_notadate == <<"n", "o", "t", "a", "d", "a", "t", "e">> \o dotcsv

PoolFiles ==
    { f_05_01_2026, f_5_1_2026, f_sp5_1_2026, f_04_01_2026, f_22_08_2025,
      f_35_13_2025, f_notadate }

Row(name, text) ==
    [Company_Name |-> name, Extracted_Text |-> text, Extracted_Links |-> NaN]

NoDevelopments ==
    words(<<"No", "significant", "corporate", "developments", "for", "Acme", "on", "05.01.2026">>)

\* what pandas reads from each file of the pool
PoolFrame(f) ==
    CASE f = f_05_01_2026 ->
             << Row(Some(<<"Acme">>), Some(NoDevelopments)),
                Row(Some(<<"Beta">>), Some(<<"Beta", " ", Body>>)) >>
      [] f = f_5_1_2026 -> << Row(Some(<<"acme">>), Some(<<Body>>)) >>
      [] f = f_sp5_1_2026 -> << Row(Some(<<"ACME">>), Some(<<Body>>)) >>
      [] f = f_04_01_2026 -> << Row(Some(<<"Beta">>), NaN) >>
      [] f = f_22_08_2025 -> << Row(Some(<<"Acme">>), Some(<<Body>>)) >>
      [] f = f_35_13_2025 -> << Row(Some(<<"beta">>), Some(<<Body>>)) >>
      [] OTHER -> << >>

RequestDates ==
    { iso(y2026, <<"0", "1">>, <<"0", "5">>),
      iso(y2026, <<"0", "1">>, <<" ", "5">>),
      iso(y2026, <<"0", "1">>, <<"0", "4">>),
      iso(y2025, <<"0", "8">>, <<"2", "2">>),
      iso(y2025, <<"1", "3">>, <<"3", "5">>),
      iso(y2025, <<"1", "2">>, <<"3", "1">>) }

InitDir ==
    /\ scrapped_output \in
           { [f \in S |-> PoolFrame(f)] :
               S \in { T \in SUBSET PoolFiles : Cardinality(T) <= MaxFiles } }
    /\ filename = Null
    /\ extracted_text = Null
    /\ request = Null
    /\ entry = "none"
    /\ op = "none"
    /\ response = Null

NextDir ==
    \/ AppAvailableDates
    \/ ServerAvailableDates
    \/ BuildMain
    \/ \E date \in RequestDates : AppCompanyNews(date)
    \/ \E date \in RequestDates : ServerCompanyNews(date)

SpecDir == InitDir /\ [][NextDir]_vars

(***************************************************************************)
(* One CSV file with arbitrary rows                                        *)
(***************************************************************************)
MaxRows == 2

NameCells ==
    { Some(<<"Acme">>), Some(<<"Beta">>), Some(<<"acme">>), Some(<<" ", "Beta">>),
      Some(<<"=======">>), Some(<<"<<<<<<<", " ", "HEAD">>),
      Some(<<LongName51>>), Some(<<LongName50>>),
      Some(<<"Dr.", " ", "Reddy's">>), Some(<<" ">>) }

ReportTextCells == { NaN, Some(<<Body>>) }

Rows == { Row(n, t) : n \in NameCells, t \in ReportTextCells }

Frames == UNION { [1..n -> Rows] : n \in 0..MaxRows }

\* a name every entry point resolves to ReportDate
ReportFile == dmy_csv(<<"2", "2">>, <<"8">>, y2025)

ReportDate == iso(y2025, <<"0", "8">>, <<"2", "2">>)

InitReport ==
    /\ scrapped_output \in { [f \in {ReportFile} |-> df] : df \in Frames }
    /\ filename = Null
    /\ extracted_text = Null
    /\ request = Null
    /\ entry = "none"
    /\ op = "none"
    /\ response = Null

NextReport ==
    \/ AppCompanyNews(ReportDate)
    \/ ServerCompanyNews(ReportDate)
    \/ BuildMain

SpecReport == InitReport /\ [][NextReport]_vars

(***************************************************************************)
(* Claims about the date lookup and the listing                            *)
(***************************************************************************)
EntryParse(f) ==
    CASE entry = "app" -> parse_date_from_filename(f)
      [] entry = "server" -> CSVHandler_parse_date_from_filename(f)
      [] OTHER -> build_parse_date_from_filename(f)

EntryReport(date, df) ==
    CASE entry = "app" -> app_report(date, df)
      [] entry = "server" -> CSVHandler_report(date, df)
      [] OTHER -> build_report(date, df)

\* C2: in both live servers a company-news request returns the report of a file
\* whose parsed date is the requested date, and 404 exactly when there is none
C2_ListedDateResolves ==
    op = "company_news" =>
        LET matching == { f \in DOMAIN scrapped_output : EntryParse(f) = Some(request) }
        IN  IF matching = {} THEN response.status = 404
            ELSE /\ response.status = 200
                 /\ \E f \in matching :
                        response.body = EntryReport(request, scrapped_output[f])

ListingDone == op \in {"available_dates", "main"}

ListingOk == response.status = (IF entry = "build" THEN 0 ELSE 200)

Listing == IF entry = "build" THEN response.available_dates ELSE response.body

\* C8: the listing succeeds and holds exactly one DateEntry for each file the parser
\* accepts, calendar-valid or not, and none for the others
C8_OneEntryPerAcceptedFile ==
    ListingDone =>
        /\ ListingOk
        /\ \A f \in DOMAIN scrapped_output :
               Cardinality({ i \in 1..Len(Listing) : Listing[i].filename = f })
                   = (IF EntryParse(f).none THEN 0 ELSE 1)
        /\ \A i \in 1..Len(Listing) : Listing[i].date = EntryParse(Listing[i].filename).v

CalendarBefore(a, b) ==
    \/ a.year < b.year
    \/ a.year = b.year /\ a.month < b.month
    \/ a.year = b.year /\ a.month = b.month /\ a.day < b.day

\* the calendar date an entry's ISO string denotes
CalendarDate(e) == strptime(e.date).v

\* C9: the listing is newest first by calendar date
C9_NewestFirst ==
    (ListingDone /\ ListingOk) =>
        \A i \in 1..(Len(Listing) - 1) :
            ~CalendarBefore(CalendarDate(Listing[i]), CalendarDate(Listing[i + 1]))

(***************************************************************************)
(* Claims about the daily report                                           *)
(***************************************************************************)
ReportDone == op \in {"company_news", "main"} /\ ListingOk

\* the report of ReportFile in the response
TheReport == IF entry = "build" THEN response.company_news[ReportDate] ELSE response.body

Buckets == <<TheReport.companies_with_news, TheReport.companies_no_news>>

ValidName(name) ==
    /\ name # <<>>
    /\ strlen(name) <= 50
    /\ \A m \in { <<"=======">>, <<"<<<<<<<">>, <<">>>>>>>">> } : ~startswith(name, m)

\* C3: every record of a report has a name that is non-empty, at most 50
\* characters long and does not begin with a conflict marker
C3_RecordNamesValid ==
    ReportDone =>
        \A b \in 1..2 : \A i \in 1..Len(Buckets[b]) : ValidName(Buckets[b][i].name)

TheFrame == scrapped_output[ReportFile]

TrimmedName(row) == strip(str(row.Company_Name))

EntryLabel(row) ==
    CASE entry = "app" -> categorize_company_news(row.Extracted_Text)
      [] entry = "server" ->
             IF has_significant_news(CSVHandler_extracted_text(row.Extracted_Text))
             THEN "has_news" ELSE "no_news"
      [] OTHER ->
             build_categorize_company_news(Some(build_extracted_text(row.Extracted_Text)))

\* rows of the frame with a valid name n that the classifier labels l
ValidRows(n, l) ==
    { i \in 1..Len(TheFrame) :
        /\ ValidName(TrimmedName(TheFrame[i]))
        /\ TrimmedName(TheFrame[i]) = n
        /\ EntryLabel(TheFrame[i]) = l }

Named(bucket, n) == { i \in 1..Len(bucket) : bucket[i].name = n }

FrameNames == { TrimmedName(TheFrame[i]) : i \in 1..Len(TheFrame) }

BucketNames == UNION { { Buckets[b][i].name : i \in 1..Len(Buckets[b]) } : b \in 1..2 }

\* C4: the valid rows, and no others, are each in exactly one bucket, the one the
\* classifier names, and the counts add up
C4_ValidRowsPartitioned ==
    ReportDone =>
        /\ \A n \in FrameNames \cup BucketNames :
               /\ Cardinality(Named(Buckets[1], n)) = Cardinality(ValidRows(n, "has_news"))
               /\ Cardinality(Named(Buckets[2], n)) = Cardinality(ValidRows(n, "no_news"))
        /\ TheReport.total_companies = Len(Buckets[1]) + Len(Buckets[2])
        /\ TheReport.total_companies =
               Cardinality({ i \in 1..Len(TheFrame) : ValidName(TrimmedName(TheFrame[i])) })
        /\ TheReport.news_count = Len(Buckets[1])
        /\ TheReport.no_news_count = Len(Buckets[2])

\* C5: both lists of a report are non-decreasing by name in code-point order
C5_BucketsSorted ==
    ReportDone =>
        \A b \in 1..2 : \A i \in 1..(Len(Buckets[b]) - 1) :
            ~str_lt(Buckets[b][i + 1].name, Buckets[b][i].name)

C5_Witness ==
    /\ ReportDone
    /\ entry = "build"
    /\ Len(TheFrame) = 2
    /\ TrimmedName(TheFrame[1]) = <<"acme">>
    /\ TrimmedName(TheFrame[2]) = <<"Beta">>
    /\ Len(Buckets[1]) = 2
    /\ Buckets[1][1].name = <<"Beta">>
    /\ Buckets[1][2].name = <<"acme">>

(***************************************************************************)
(* Link extraction                                                         *)
(***************************************************************************)
Range(s) == { s[i] : i \in 1..Len(s) }

\* atoms that start with 'http://' or 'https://'
HttpAtoms == {U1, U2, UShort, "https://"}

\* atoms that contain one of 'http', 'www.', '.com', '.org', '.net', '.in'
DomainAtoms == HttpAtoms \cup {Www, Bare}

\* the delimiters of the split variant, in the order they are tried
Delimiters == <<",", ";", "\n", "|", "\t">>

\* the pieces of the field: split on the first delimiter that occurs in it,
\* each piece stripped; the whole field when none occurs
potential_links(links_str) ==
    LET found == { i \in 1..Len(Delimiters) : Delimiters[i] \in Range(links_str) }
    IN  IF found = {}
        THEN <<links_str>>
        ELSE LET first == CHOOSE i \in found : \A j \in found : i <= j
                 parts == str_split(links_str, Delimiters[first])
             IN  [i \in 1..Len(parts) |-> strip(parts[i])]

\* a piece without a protocol gets 'https://' when it starts with 'www.' or
\* has a dot and does not start with 'no '
with_protocol(link) ==
    IF Head(link) \in HttpAtoms
    THEN link
    ELSE IF Head(link) = Www
         THEN <<"https://">> \o link
         ELSE IF (\E a \in Range(link) : DotPos(a) >= 0) /\ ~startswith(link, <<"no", " ">>)
              THEN <<"https://">> \o link
              ELSE link

\* the loop over the pieces: nothing is compared with what was kept before
RECURSIVE clean_links(_)
clean_links(links) ==
    IF links = <<>>
    THEN <<>>
    ELSE LET link == strip(Head(links))
             rest == clean_links(Tail(links))
         IN  IF link # <<>> /\ strlen(link) > 10
             THEN LET url == with_protocol(link)
                  IN  IF Range(url) \cap DomainAtoms # {}
                      THEN <<url>> \o rest
                      ELSE rest
             ELSE rest

\* app.py process_links: the split variant
process_links(links_str) ==
    IF links_str.none \/ links_str.v = <<>>
    THEN <<>>
    ELSE LET stripped == strip(str(links_str))
         IN  IF stripped = <<>> \/ startswith(lower(stripped), words(<<"no", "links", "found">>))
             THEN <<>>
             ELSE clean_links(potential_links(stripped))

\* build.py process_links: the same function
build_process_links(links_str) ==
    IF links_str.none \/ links_str.v = <<>>
    THEN <<>>
    ELSE LET stripped == strip(str(links_str))
         IN  IF stripped = <<>> \/ startswith(lower(stripped), words(<<"no", "links", "found">>))
             THEN <<>>
             ELSE clean_links(potential_links(stripped))

\* characters that end a match of https?://[^\s"'<>\])]+
UrlStops == Whitespace \cup {"\"", "'", "<", ">", "]", ")"}

\* characters removed from the end of a match by [.,;)}\]]+$
TrailingPunctuation == {".", ",", ";", ")", "}", "]"}

\* length of the longest prefix of s without a stop character
RECURSIVE url_run(_)
url_run(s) == IF s = <<>> \/ Head(s) \in UrlStops THEN 0 ELSE 1 + url_run(Tail(s))

\* re.findall(url_pattern, s): the non-overlapping matches, left to right
RECURSIVE findall_urls(_)
findall_urls(s) ==
    IF s = <<>>
    THEN <<>>
    ELSE IF Head(s) \in HttpAtoms \ {"https://"}
         THEN LET n == url_run(s)
              IN  <<SubSeq(s, 1, n)>> \o findall_urls(SubSeq(s, n + 1, Len(s)))
         ELSE findall_urls(Tail(s))

\* re.sub(r'[.,;)}\]]+$', '', url)
RECURSIVE strip_trailing(_)
strip_trailing(url) ==
    IF url # <<>> /\ url[Len(url)] \in TrailingPunctuation
    THEN strip_trailing(SubSeq(url, 1, Len(url) - 1))
    ELSE url

\* the loop over the matches with every match kept, seen or not
RECURSIVE clean_urls_all(_, _)
clean_urls_all(urls, seen) ==
    IF urls = <<>>
    THEN <<>>
    ELSE LET url == strip_trailing(Head(urls))
         IN  IF url # <<>> /\ strlen(url) > 10
             THEN <<url>> \o clean_urls_all(Tail(urls), seen \cup {url})
             ELSE clean_urls_all(Tail(urls), seen)

\* the loop over the matches: a cleaned match is kept when it is new and
\* longer than 10 characters
RECURSIVE clean_urls(_, _)
clean_urls(urls, seen) ==
    IF urls = <<>>
    THEN <<>>
    ELSE LET url == strip_trailing(Head(urls))
         IN  IF url # <<>> /\ url \notin seen /\ strlen(url) > 10
             THEN <<url>> \o clean_urls(Tail(urls), seen \cup {url})
             ELSE clean_urls(Tail(urls), seen)

\* csv_server.py process_links without the test for the phrase
CSVHandler_process_links_nophrase(links_str) ==
    IF links_str.none \/ links_str.v = <<>>
    THEN <<>>
    ELSE clean_urls(findall_urls(links_str.v), {})

\* csv_server.py process_links: the regex variant
CSVHandler_process_links(links_str) ==
    IF links_str.none \/ links_str.v = <<>>
       \/ startswith(lower(links_str.v), words(<<"no", "links", "found">>))
    THEN <<>>
    ELSE clean_urls(findall_urls(links_str.v), {})

\* the argument each entry point passes for a row's Extracted_Links cell
app_links_arg(cell) == Some(str(cell))

build_links_arg(cell) == Some(str(cell))

CSVHandler_links_arg(cell) == Some(strip(str(cell)))

(***************************************************************************)
(* Link fields and the specification of the three extractors               *)
(***************************************************************************)
MaxLinks == 3

LinkItems == { <<U1>>, <<U2>>, <<U1, ".">>, <<UShort>>, <<Www>>, <<Bare>>, <<Plain>> }

LinkSeparators == { <<",", " ">>, <<" ">>, <<";">>, <<"|">> }

LinkLeads ==
    { <<>>, <<" ">>,
      words(<<"No", "Links", "Found">>) \o <<" ">>,
      <<" ">> \o words(<<"no", "links", "found", "for">>) \o <<" ">> }

\* the items of a link field with a separator between them
RECURSIVE separated(_, _)
separated(items, sep) ==
    IF Len(items) = 0 THEN <<>>
    ELSE IF Len(items) = 1 THEN items[1]
    ELSE items[1] \o sep \o separated(Tail(items), sep)

LinkCells ==
    {NaN, Some(<<>>)}
    \cup { Some(lead \o separated(items, sep)) :
             lead \in LinkLeads, sep \in LinkSeparators,
             items \in UNION { [1..n -> LinkItems] : n \in 1..MaxLinks } }

InitLinks ==
    /\ scrapped_output = <<>>
    /\ filename = <<>>
    /\ extracted_text \in LinkCells
    /\ request = <<>>
    /\ entry = "none"
    /\ op = "none"
    /\ response = <<>>

\* app.py get_company_details: processed_links of the row
AppLinks ==
    /\ entry' = "app"
    /\ op' = "links"
    /\ response' = process_links(app_links_arg(extracted_text))
    /\ UNCHANGED <<scrapped_output, filename, extracted_text, request>>

\* build.py main: processed_links of the row
BuildLinks ==
    /\ entry' = "build"
    /\ op' = "links"
    /\ response' = build_process_links(build_links_arg(extracted_text))
    /\ UNCHANGED <<scrapped_output, filename, extracted_text, request>>

\* csv_server.py serve_company_details: processed_links of the row
ServerLinks ==
    /\ entry' = "server"
    /\ op' = "links"
    /\ response' = CSVHandler_process_links(CSVHandler_links_arg(extracted_text))
    /\ UNCHANGED <<scrapped_output, filename, extracted_text, request>>

NextLinks == AppLinks \/ BuildLinks \/ ServerLinks

SpecLinks == InitLinks /\ [][NextLinks]_vars

(***************************************************************************)
(* Claims about link extraction                                            *)
(***************************************************************************)
LinksDone == op = "links"

NoDuplicates(list) ==
    \A i, j \in 1..Len(list) : list[i] = list[j] => i = j

\* C11: the link list an entry point produces for a links field contains   
\* no URL more than once, whichever extractor produced it; the field       
\* 'https://example.com/news, https://example.com/news' gives one entry.   
C11_NoDuplicateLinks ==
    LinksDone => NoDuplicates(response)

\* the field as csv_server.py hands it to its extractor
ServerField == CSVHandler_links_arg(extracted_text).v

NoLinksPhrase == words(<<"no", "links", "found">>)

\* the matches of the URL pattern in the field, trailing punctuation removed
CleanedMatches ==
    LET found == findall_urls(ServerField)
    IN  [i \in 1..Len(found) |-> strip_trailing(found[i])]

FirstMatch(url) ==
    CHOOSE i \in 1..Len(CleanedMatches) :
        /\ CleanedMatches[i] = url
        /\ \A j \in 1..Len(CleanedMatches) : CleanedMatches[j] = url => i <= j

\* C12: in the regex variant a URL matched more than once is in the output 
\* exactly once, the kept URLs stand in the order of their first matches,  
\* and every kept URL is longer than 10 characters and ends with none of   
\* . , ; ) } ] (removed before the comparison with the URLs already kept). 
C12_RegexVariantDeduplicates ==
    (LinksDone /\ entry = "server" /\ ~startswith(lower(ServerField), NoLinksPhrase)) =>
        /\ NoDuplicates(response)
        /\ \A i \in 1..Len(response) :
              /\ strlen(response[i]) > 10
              /\ response[i][Len(response[i])] \notin TrailingPunctuation
        /\ Range(response) = { u \in Range(CleanedMatches) : strlen(u) > 10 }
        /\ \A i, j \in 1..Len(response) :
              i < j => FirstMatch(response[i]) < FirstMatch(response[j])

C12_Witness ==
    /\ LinksDone
    /\ entry = "server"
    /\ extracted_text = Some(<<U1, ".", " ", U2, " ", U1>>)
    /\ response = << <<U1>>, <<U2>> >>

\* C13: in every extractor a links field that is null, or whose trimmed    
\* lowercased text starts with 'no links found', gives the empty list,     
\* whatever follows the phrase.                                            
C13_NoLinksFoundIsEmpty ==
    (/\ LinksDone
     /\ \/ extracted_text.none
        \/ startswith(lower(strip(extracted_text.v)), NoLinksPhrase)) =>
        response = <<>>

C13_Witness ==
    /\ LinksDone
    /\ entry = "server"
    /\ extracted_text = Some(words(<<"No", "Links", "Found">>) \o <<" ", U1, " ", U2>>)
    /\ response = <<>>

(***************************************************************************)
(* Claims about the records' text                                          *)
(***************************************************************************)
\* rows of the frame whose trimmed name is n
RowsNamed(n) == { i \in 1..Len(TheFrame) : TrimmedName(TheFrame[i]) = n }

\* C14: the record of a row whose text cell is null has text '' and        
\* has_content false, and in every record has_content is true exactly     
\* when text is not the empty string, in every entry point.                
C14_NullTextIsEmpty ==
    ReportDone =>
        \A b \in 1..2 : \A i \in 1..Len(Buckets[b]) :
            LET record == Buckets[b][i]
            IN  /\ record.has_content <=> record.text # <<>>
                /\ (\A r \in RowsNamed(record.name) : TheFrame[r].Extracted_Text.none) =>
                       (record.text = <<>> /\ ~record.has_content)

(***************************************************************************)
(* Company details                                                         *)
(***************************************************************************)
CompanyDetails(company_name, text, links_raw, processed_links, date) ==
    [ company_name |-> company_name,
      extracted_text |-> text,
      links_raw |-> links_raw,
      processed_links |-> processed_links,
      date |-> date ]

\* app.py:237-247: the detail object of a row
app_details(row, company_name, date) ==
    LET links == IF "Extracted_Links" \in DOMAIN row
                 THEN str(row.Extracted_Links) ELSE <<>>
    IN  CompanyDetails(company_name,
                       IF "Extracted_Text" \in DOMAIN row
                       THEN str(row.Extracted_Text) ELSE <<>>,
                       links,
                       process_links(Some(links)),
                       date)

\* app.py:231: rows whose trimmed name is the requested name; a null name
\* compares unequal
app_company_row(df, company_name) ==
    { i \in 1..Len(df) :
        /\ ~df[i].Company_Name.none
        /\ strip(df[i].Company_Name.v) = company_name }

\* GET /api/company-details/<date>/<company_name>, app.py:224-250, after
\* the lookup
app_company_details_response(date, company_name, target_file, dir) ==
    IF target_file.none
    THEN Http(404, <<"No data found for this date">>)
    ELSE LET df == app_read_csv(dir[target_file.v])
         IN  IF df.raised THEN Http(500, df.exc)
             ELSE IF KeyErrorIn(df.value) THEN Http(500, KeyErrorText)
             ELSE LET company_row == app_company_row(df.value, company_name)
                  IN  IF company_row = {}
                      THEN Http(404, <<"Company not found">>)
                      ELSE LET first == CHOOSE i \in company_row :
                                            \A j \in company_row : i <= j
                           IN  Http(200, app_details(df.value[first], company_name, date))

\* csv_server.py:150-163: the detail object of a row
CSVHandler_details(row, date) ==
    LET extracted_links == strip(str(cell_or_empty(row, "Extracted_Links")))
    IN  CompanyDetails(strip(str(row.Company_Name)),
                       strip(str(cell_or_empty(row, "Extracted_Text"))),
                       extracted_links,
                       CSVHandler_process_links(Some(extracted_links)),
                       date)

\* csv_server.py:139-141: the requested name is in the row's name, or the
\* row's name is in the requested name, both lowercased
CSVHandler_company_match(row, company) ==
    LET row_company == strip(str(row.Company_Name))
    IN  \/ contains(lower(row_company), lower(company))
        \/ contains(lower(company), lower(row_company))

\* csv_server.py:128-168, after the route was parsed
CSVHandler_company_details_response(date, company, csv_file, dir) ==
    IF csv_file.none
    THEN Http(404, <<"No data found for date">>)
    ELSE LET df == CSVHandler_read_csv(dir[csv_file.v])
         IN  IF df.raised
             THEN Http(500, <<"Error processing company details: ">> \o df.exc)
             ELSE IF KeyErrorIn(df.value)
             THEN Http(500, <<"Error processing company details: ">> \o KeyErrorText)
             ELSE LET hits == { i \in 1..Len(df.value) :
                                  CSVHandler_company_match(df.value[i], company) }
                  IN  IF hits = {}
                      THEN Http(404, <<"Company not found for date">>)
                      ELSE LET first == CHOOSE i \in hits : \A j \in hits : i <= j
                           IN  Http(200, CSVHandler_details(df.value[first], date))

DetailsRequest(date, company) == [date |-> date, company |-> company]

\* GET /api/company-details/<date>/<company_name>, app.py:209-250
AppCompanyDetails(date, company_name) ==
    \E csv_files \in Orders(glob_csv(scrapped_output)) :
        LET target_file == app_target_file(csv_files, date)
        IN  /\ entry' = "app"
            /\ op' = "company_details"
            /\ request' = DetailsRequest(date, company_name)
            /\ response' = app_company_details_response(date, company_name, target_file,
                                                        scrapped_output)
            /\ UNCHANGED <<scrapped_output, filename, extracted_text>>

\* GET /api/company-details-<date>-<company>.json, csv_server.py:27-32, 126-168
ServerCompanyDetails(date, company) ==
    LET csv_file == find_csv_for_date(scrapped_output, date)
    IN  /\ entry' = "server"
        /\ op' = "company_details"
        /\ request' = DetailsRequest(date, company)
        /\ response' = CSVHandler_company_details_response(date, company, csv_file,
                                                           scrapped_output)
        /\ UNCHANGED <<scrapped_output, filename, extracted_text>>

(***************************************************************************)
(* One file, whole or broken, and the requests of the live servers         *)
(***************************************************************************)
MaxDetailRows == 2

DetailNames == { Some(<<"Acme">>), Some(<<"Acme", " ", "Corp">>), Some(<<"Beta">>), Some(<<" ">>) }

DetailRows ==
    { [Company_Name |-> n, Extracted_Text |-> t,
       Extracted_Links |-> Some(<<U1, ",", " ", U1>>)] :
        n \in DetailNames, t \in {NaN, Some(<<Body>>)} }

\* the header of the file
ColumnSets ==
    { {"Company_Name", "Extracted_Text", "Extracted_Links"},
      {"Company_Name"},
      {"Extracted_Text", "Extracted_Links"} }

columns_of(row, cols) == [c \in cols |-> row[c]]

WholeFrames ==
    { [i \in 1..Len(rows) |-> columns_of(rows[i], cols)] :
        cols \in ColumnSets,
        rows \in UNION { [1..n -> DetailRows] : n \in 0..MaxDetailRows } }

DetailFrames ==
    WholeFrames \cup { Append(df, BadLine) : df \in WholeFrames } \cup {EmptyFile}

RequestNames == { <<"Acme">>, <<"acme">>, <<"Acme", "-", "Corp">>, <<"Zed">> }

InitDetails ==
    /\ scrapped_output \in
           { [f \in {} |-> <<>>] } \cup { [f \in {ReportFile} |-> df] : df \in DetailFrames }
    /\ filename = <<>>
    /\ extracted_text = <<>>
    /\ request = <<>>
    /\ entry = "none"
    /\ op = "none"
    /\ response = <<>>

NextDetails ==
    \/ AppCompanyNews(ReportDate)
    \/ ServerCompanyNews(ReportDate)
    \/ \E company \in RequestNames : AppCompanyDetails(ReportDate, company)
    \/ \E company \in RequestNames : ServerCompanyDetails(ReportDate, company)

SpecDetails == InitDetails /\ [][NextDetails]_vars

(***************************************************************************)
(* Claims about the company-details and company-news requests              *)
(***************************************************************************)
DetailsDone == op = "company_details"

FilePresent == ReportFile \in DOMAIN scrapped_output

FileContent == scrapped_output[ReportFile]

\* the file reads without an exception and has the name column
CleanFile ==
    /\ FileContent # EmptyFile
    /\ \A i \in 1..Len(FileContent) : IsGoodLine(FileContent[i])
    /\ ~KeyErrorIn(FileContent)

\* the row's trimmed name equals the requested name or contains it, case
\* ignored
NameMatches(row) ==
    LET name == strip(str(row.Company_Name))
    IN  \/ name = request.company
        \/ contains(lower(name), lower(request.company))

DetailOf(row) ==
    IF entry = "app"
    THEN app_details(row, request.company, request.date)
    ELSE CSVHandler_details(row, request.date)

\* C15: a company-details request returns the detail object of a row of    
\* the date's CSV whose trimmed name equals the requested name or contains 
\* it as a case-insensitive substring; it returns 404 when no row matches  
\* in this way or no CSV matches the date, and never another row.          
C15_DetailsOfMatchingRow ==
    (DetailsDone /\ (FilePresent => CleanFile)) =>
        IF FilePresent /\ \E i \in 1..Len(FileContent) : NameMatches(FileContent[i])
        THEN /\ response.status = 200
             /\ \E i \in 1..Len(FileContent) :
                   /\ NameMatches(FileContent[i])
                   /\ response.body = DetailOf(FileContent[i])
        ELSE response.status = 404

NewsDone == op = "company_news"

GoodLines == SelectSeq(FileContent, IsGoodLine)

\* reading or processing the file raises in the server that answered
Raises ==
    \/ FileContent = EmptyFile
    \/ entry = "app" /\ GoodLines # FileContent
    \/ FileContent # EmptyFile /\ KeyErrorIn(GoodLines)

ExceptionText ==
    IF FileContent = EmptyFile THEN EmptyFile[1].error
    ELSE IF entry = "app" /\ GoodLines # FileContent THEN <<"Error tokenizing data">>
    ELSE KeyErrorText

\* C16: in app.py and csv_server.py a company-news request whose CSV       
\* cannot be read or processed (empty file, parse error, no Company_Name   
\* column) ends with status 500 and the exception text, not with a report  
\* or a partial list; a date without a CSV gives 404, not 500 and not an   
\* empty report.                                                           
C16_ErrorsAre500MissingIs404 ==
    NewsDone =>
        /\ ~FilePresent => response.status = 404
        /\ (FilePresent /\ Raises) =>
              /\ response.status = 500
              /\ endswith(response.body, ExceptionText)

C16_Witness ==
    /\ NewsDone
    /\ entry = "server"
    /\ FilePresent
    /\ FileContent = << [Extracted_Text |-> Some(<<Body>>),
                         Extracted_Links |-> Some(<<U1, ",", " ", U1>>)] >>
    /\ response = Http(500, <<"Error processing CSV: ", "'Company_Name'">>)

(***************************************************************************)
(* Simultaneous requests                                                   *)
(*                                                                         *)
(* request[r] holds a request and the locals of its handler, response[r]   *)
(* what was sent.  app.py runs under Flask's threaded server, so the steps *)
(* of its handlers interleave; csv_server.py runs an HTTPServer, which     *)
(* handles one request after the other.                                    *)
(***************************************************************************)
MaxRequests == 3

NoResponse == Http(0, <<>>)

\* the data directory after pd.read_csv, glob.glob or os.path.exists looked
\* at it: none of them writes
after_reading_emptied(dir, csv_file) ==
    [f \in DOMAIN dir |-> IF f = csv_file THEN EmptyFile ELSE dir[f]]

after_reading(dir, csv_file) == dir

Received(kind, date, company) ==
    [ kind |-> kind, date |-> date, company |-> company, pc |-> "received",
      csv_files |-> <<>>, target_file |-> None, content |-> <<>> ]

RequestPool ==
    { Received("company_news", ReportDate, <<>>),
      Received("company_details", ReportDate, <<"Acme">>) }

AcmeFrame == << Row(Some(<<"Acme">>), Some(<<Body>>)) >>

BetaFrame == << Row(Some(<<"Beta">>), NaN) >>

ConcurrentDirs ==
    { [f \in {} |-> <<>>],
      [f \in {ReportFile} |-> AcmeFrame],
      [f \in {ReportFile, f_22_08_2025} |-> IF f = ReportFile THEN AcmeFrame ELSE BetaFrame] }

InitConcurrent ==
    /\ scrapped_output \in ConcurrentDirs
    /\ filename = <<>>
    /\ extracted_text = <<>>
    /\ request \in [1..MaxRequests -> RequestPool]
    /\ entry \in {"app", "server"}
    /\ op = "serve"
    /\ response = [r \in 1..MaxRequests |-> NoResponse]

\* the file the handler looks for
lookup(dir, csv_files, date) ==
    IF entry = "app" THEN app_target_file(csv_files, date) ELSE find_csv_for_date(dir, date)

\* the response of a handler whose locals are req and which sees dir
handler_response(req, dir) ==
    IF req.kind = "company_news"
    THEN IF entry = "app"
         THEN app_company_news_response(req.date, req.target_file, dir)
         ELSE CSVHandler_company_news_response(req.date, req.target_file, dir)
    ELSE IF entry = "app"
         THEN app_company_details_response(req.date, req.company, req.target_file, dir)
         ELSE CSVHandler_company_details_response(req.date, req.company,
                                                  req.target_file, dir)

\* HTTPServer takes the next request when the one before is answered
MayStep(r) ==
    entry = "server" => \A o \in 1..MaxRequests \ {r} : request[o].pc \in {"received", "done"}

\* the handler lists the directory and picks its file; without a file it
\* answers 404 at once
Lookup(r) ==
    /\ request[r].pc = "received"
    /\ MayStep(r)
    /\ \E csv_files \in Orders(glob_csv(scrapped_output)) :
          LET req == request[r]
              target_file == lookup(scrapped_output, csv_files, req.date)
              found == [req EXCEPT !.csv_files = csv_files, !.target_file = target_file]
          IN  IF target_file.none
              THEN /\ request' = [request EXCEPT ![r] = [found EXCEPT !.pc = "done"]]
                   /\ response' = [response EXCEPT ![r] = handler_response(found, <<>>)]
              ELSE /\ request' = [request EXCEPT ![r] = [found EXCEPT !.pc = "found"]]
                   /\ response' = response
    /\ UNCHANGED <<scrapped_output, filename, extracted_text, entry, op>>

\* pd.read_csv of the file that was picked
Read(r) ==
    /\ request[r].pc = "found"
    /\ MayStep(r)
    /\ LET csv_file == request[r].target_file.v
       IN  /\ request' = [request EXCEPT ![r].pc = "read",
                                         ![r].content = scrapped_output[csv_file]]
           /\ scrapped_output' = after_reading(scrapped_output, csv_file)
    /\ UNCHANGED <<filename, extracted_text, entry, op, response>>

\* the rest of the handler: the response from what was read
Respond(r) ==
    /\ request[r].pc = "read"
    /\ MayStep(r)
    /\ LET req == request[r]
           seen == [f \in {req.target_file.v} |-> req.content]
       IN  /\ response' = [response EXCEPT ![r] = handler_response(req, seen)]
           /\ request' = [request EXCEPT ![r].pc = "done"]
    /\ UNCHANGED <<scrapped_output, filename, extracted_text, entry, op>>

NextConcurrent == \E r \in 1..MaxRequests : Lookup(r) \/ Read(r) \/ Respond(r)

SpecConcurrent == InitConcurrent /\ [][NextConcurrent]_vars

(***************************************************************************)
(* Claim about simultaneous requests                                       *)
(***************************************************************************)
\* the responses request r can get when it is the only one
AloneResponses(r) ==
    { LET req == request[r]
          target_file == lookup(scrapped_output, csv_files, req.date)
      IN  handler_response([req EXCEPT !.csv_files = csv_files,
                                       !.target_file = target_file],
                           scrapped_output) :
        csv_files \in Orders(glob_csv(scrapped_output)) }

\* C17: no step of a GET handler of app.py or csv_server.py changes the    
\* data directory, and however the steps of simultaneous requests are      
\* interleaved, each request gets a response it could get on its own.      
C17_RequestsAreIndependent ==
    /\ [](\A r \in 1..MaxRequests :
            request[r].pc = "done" => response[r] \in AloneResponses(r))
    /\ [][scrapped_output' = scrapped_output]_vars

\* one request answered while two others hold the content of the same file
C17_Witness ==
    /\ entry = "app"
    /\ scrapped_output = [f \in {ReportFile} |-> AcmeFrame]
    /\ request[1].kind = "company_news" /\ request[1].pc = "done"
    /\ response[1] = Http(200, app_report(ReportDate, AcmeFrame))
    /\ request[2].kind = "company_details" /\ request[2].pc = "read"
    /\ request[3].kind = "company_news" /\ request[3].pc = "read"
    /\ request[2].target_file = Some(ReportFile)
    /\ request[3].target_file = Some(ReportFile)

====
